---- MODULE Spec2Model ----
(***************************************************************************)
(* Model of tools/convert_maps.py: the RPGMaker MZ map converter.          *)
(*                                                                         *)
(* Encoding of Python/JSON values:                                         *)
(*   - an optional value (JSON null / Python None) is a sequence of length *)
(*     0 or 1: <<>> is None, <<v>> is the value v;                         *)
(*   - a dict whose keys may be absent carries a field `keys`, the set of  *)
(*     keys present; d['k'] with "k" \notin d.keys raises KeyError;        *)
(*   - a file is a record with `exists`; its content is a sequence of      *)
(*     length 0 or 1.                                                      *)
(***************************************************************************)
EXTENDS Integers, Sequences, FiniteSets, TLC

VARIABLES pc, idx, rpg_files, out_files, output_dir, raised, console, arg, ret

vars == <<pc, idx, rpg_files, out_files, output_dir, raised, console, arg, ret>>

(***************************************************************************)
(* Bounds of the model.                                                    *)
(***************************************************************************)
MaxTileId == 2300     \* tile ids range over MinTileId .. MaxTileId
MaxCmds == 3          \* longest command list given to the dialogue extractor
MaxDim == 2           \* width and height range over 1 .. MaxDim
MaxExtra == 1         \* data holds at most width*height + MaxExtra entries
MaxEvents == 2        \* longest `events` list of a source map

MinTileId == 0 - 40

None == <<>>
Some(v) == <<v>>

(***************************************************************************)
(* convert_direction: dict lookup with default "down".                     *)
(***************************************************************************)
convert_direction(rpgmaker_dir) ==
    IF rpgmaker_dir = Some(2) THEN "down"
    ELSE IF rpgmaker_dir = Some(4) THEN "left"
    ELSE IF rpgmaker_dir = Some(6) THEN "right"
    ELSE IF rpgmaker_dir = Some(8) THEN "up"
    ELSE "down"

(***************************************************************************)
(* extract_dialogue_from_commands: one pass over the commands, keeping     *)
(* `portrait` and `lines`.  ExtractLoop is the for loop from position k.   *)
(***************************************************************************)
RECURSIVE ExtractLoop(_, _, _, _)
ExtractLoop(commands, k, portrait, lines) ==
    IF k > Len(commands) THEN [portrait |-> portrait, lines |-> lines]
    ELSE LET cmd == commands[k] IN
         IF cmd.code = 101 /\ cmd.parameters # <<>>
             THEN ExtractLoop(commands, k + 1, cmd.parameters[1], lines)
         ELSE IF cmd.code = 401 /\ cmd.parameters # <<>>
             THEN ExtractLoop(commands, k + 1, portrait,
                              Append(lines, cmd.parameters[1]))
         ELSE ExtractLoop(commands, k + 1, portrait, lines)

\* Mutant: the portrait of the first "show face" command is kept.
extract_first_portrait(commands) ==
    LET r == ExtractLoop(commands, 1, "", <<>>)
        faces == SelectSeq(commands,
                     LAMBDA c : c.code = 101 /\ c.parameters # <<>>)
    IN  [portrait |-> IF faces = <<>> THEN "" ELSE faces[1].parameters[1],
         lines |-> r.lines]

extract_dialogue_from_commands(commands) ==
    ExtractLoop(commands, 1, "", <<>>)

(***************************************************************************)
(* simplify_tile_id                                                        *)
(***************************************************************************)
\* Mutant: the top bracket starts one too high (> instead of >=).
simplify_tile_id_off_by_one(tile_id) ==
    IF tile_id > 2048 THEN tile_id - 2048
    ELSE IF tile_id >= 1536 THEN tile_id - 1536
    ELSE 0

simplify_tile_id(tile_id) ==
    IF tile_id >= 2048 THEN tile_id - 2048
    ELSE IF tile_id >= 1536 THEN tile_id - 1536
    ELSE 0

(***************************************************************************)
(* convert_map, lines 59-91: the loop over rpg_data['events'].             *)
(* event_step is one iteration: "skip" for a `continue`, "npc" with the    *)
(* record appended by line 91, "raise" for a KeyError.                     *)
(***************************************************************************)
Skipped == [kind |-> "skip", npc |-> <<>>]

MakeNpc(ev, image, d) ==
    [name |-> ev.name, x |-> ev.x, y |-> ev.y,
     sprite |-> image.characterName,
     facing |-> convert_direction(image.direction),
     dialogue |-> [speaker |-> ev.name, portrait |-> d.portrait,
                   lines |-> d.lines]]

\* Mutant: the `if not lines: continue` of lines 76-77 is left out.
event_step_keep_silent(event) ==
    IF event = None THEN Skipped
    ELSE LET ev == event[1] IN
         IF ev.pages = <<>> \/ ev.pages[1].image.characterName = ""
             THEN Skipped
         ELSE LET page == ev.pages[1]
                  image == page.image
                  d == extract_dialogue_from_commands(page.list)
              IN  IF "direction" \notin image.keys
                      THEN [kind |-> "raise", npc |-> <<>>]
                  ELSE [kind |-> "npc", npc |-> <<MakeNpc(ev, image, d)>>]

event_step(event) ==
    IF event = None THEN Skipped
    ELSE LET ev == event[1] IN
         IF ev.pages = <<>> \/ ev.pages[1].image.characterName = ""
             THEN Skipped
         ELSE LET page == ev.pages[1]
                  image == page.image
                  d == extract_dialogue_from_commands(page.list)
              IN  IF d.lines = <<>> THEN Skipped
                  ELSE IF "direction" \notin image.keys
                      THEN [kind |-> "raise", npc |-> <<>>]
                  ELSE [kind |-> "npc", npc |-> <<MakeNpc(ev, image, d)>>]

\* Mutant: npcs.insert(0, npc) in place of npcs.append(npc).
add_npc_front(npcs, npc) == <<npc>> \o npcs

add_npc(npcs, npc) == Append(npcs, npc)

RECURSIVE EventLoop(_, _, _)
EventLoop(events, k, npcs) ==
    IF k > Len(events) THEN [raised |-> "none", npcs |-> npcs]
    ELSE LET s == event_step(events[k]) IN
         IF s.kind = "raise" THEN [raised |-> "KeyError", npcs |-> npcs]
         ELSE IF s.kind = "npc"
             THEN EventLoop(events, k + 1, add_npc(npcs, s.npc[1]))
         ELSE EventLoop(events, k + 1, npcs)

(***************************************************************************)
(* data[:layer_size], Python slice semantics (a negative stop counts from  *)
(* the end), and the list comprehension of line 57.                        *)
(***************************************************************************)
SliceTo(data, stop) ==
    LET n == IF stop >= 0 THEN (IF stop < Len(data) THEN stop ELSE Len(data))
             ELSE (IF Len(data) + stop > 0 THEN Len(data) + stop ELSE 0)
    IN  [i \in 1..n |-> data[i]]

SimplifyAll(raw_tiles) ==
    [i \in 1..Len(raw_tiles) |-> simplify_tile_id(raw_tiles[i])]

(***************************************************************************)
(* convert_map, lines 48-100: everything before the destination is opened. *)
(* The result is the exception raised ("none" if none) and clean_data.     *)
(***************************************************************************)
NoData == <<>>

BuildCleanData(rpg_file) ==
    IF ~rpg_file.exists THEN [raised |-> "FileNotFoundError", data |-> NoData]
    ELSE IF ~rpg_file.valid THEN [raised |-> "JSONDecodeError", data |-> NoData]
    ELSE LET rpg_data == rpg_file.json[1] IN
    IF "width" \notin rpg_data.keys THEN [raised |-> "KeyError", data |-> NoData]
    ELSE IF "height" \notin rpg_data.keys THEN [raised |-> "KeyError", data |-> NoData]
    ELSE IF "data" \notin rpg_data.keys THEN [raised |-> "KeyError", data |-> NoData]
    ELSE IF "events" \notin rpg_data.keys THEN [raised |-> "KeyError", data |-> NoData]
    ELSE LET width == rpg_data.width
             height == rpg_data.height
             layer_size == width * height
             raw_tiles == SliceTo(rpg_data.data, layer_size)
             tiles == SimplifyAll(raw_tiles)
             r == EventLoop(rpg_data.events, 1, <<>>)
         IN  IF r.raised # "none" THEN [raised |-> r.raised, data |-> NoData]
             ELSE IF "displayName" \notin rpg_data.keys
                 THEN [raised |-> "KeyError", data |-> NoData]
             ELSE [raised |-> "none",
                   data |-> <<[name |-> rpg_data.displayName, width |-> width,
                               height |-> height, tiles |-> tiles,
                               npcs |-> r.npcs]>>]

(***************************************************************************)
(* convert_map: the result is the exception that leaves the call, the      *)
(* destination file after the call and what the call printed.              *)
(***************************************************************************)
\* Mutant: the destination is opened for writing (and so truncated) before
\* the source record is read.
convert_map_open_first(rpg_name, rpg_file, out_file) ==
    LET r == BuildCleanData(rpg_file) IN
    IF r.raised # "none"
        THEN [raised |-> r.raised,
              out |-> [exists |-> TRUE, content |-> <<>>],
              printed |-> <<>>]
    ELSE [raised |-> "none",
          out |-> [exists |-> TRUE, content |-> r.data],
          printed |-> <<[msg |-> "Converted", file |-> rpg_name]>>]

convert_map(rpg_name, rpg_file, out_file) ==
    LET r == BuildCleanData(rpg_file) IN
    IF r.raised # "none"
        THEN [raised |-> r.raised, out |-> out_file, printed |-> <<>>]
    ELSE [raised |-> "none",
          out |-> [exists |-> TRUE, content |-> r.data],
          printed |-> <<[msg |-> "Converted", file |-> rpg_name]>>]

(***************************************************************************)
(* main, lines 116-126: the compiled-in list of (source, destination).     *)
(***************************************************************************)
maps_to_convert ==
    << <<"Map002.json", "town_of_endgame.json">>,
       <<"Map004.json", "team_marathon.json">> >>

RpgNames == {maps_to_convert[i][1] : i \in 1..Len(maps_to_convert)}
OutNames == {maps_to_convert[i][2] : i \in 1..Len(maps_to_convert)}

(***************************************************************************)
(* Input values: files, source records, events, pages, commands.           *)
(***************************************************************************)
SeqsUpTo(S, n) == UNION {[1..k -> S] : k \in 0..n}

TopKeys == {"width", "height", "data", "displayName", "events"}
ImageKeys == {"characterName", "direction"}

Cmd(code, parameters) == [code |-> code, parameters |-> parameters]

CommandSample ==
    {Cmd(c, ps) : c \in {101, 401, 102},
                  ps \in {<<>>, <<"Hi there">>, <<"Bob_1", "0">>}}

Page(sprite, keys, direction, list) ==
    [image |-> [keys |-> keys, characterName |-> sprite,
                direction |-> direction],
     list |-> list]

Talk == <<Cmd(101, <<"Bob_1", "0">>), Cmd(401, <<"Hi there">>)>>

ListSample ==
    {<<>>, Talk,
     <<Cmd(101, <<"Bob_1", "0">>), Cmd(401, <<>>)>>,
     <<Cmd(401, <<"Hi there">>), Cmd(101, <<"Amy_2", "1">>),
       Cmd(401, <<"Bye">>)>>}

DirectionSample == {None, Some(2), Some(4), Some(6), Some(8), Some(5)}

PageSample ==
    {Page(s, ImageKeys, Some(6), l) : s \in {"", "Actor1"}, l \in ListSample}
    \cup {Page("Actor1", ImageKeys, d, Talk) : d \in DirectionSample}
    \cup {Page(s, {"characterName"}, None, l) :
              s \in {"", "Actor1"}, l \in {<<>>, Talk}}

PagesSample ==
    {<<>>} \cup {<<p>> : p \in PageSample}
    \cup {<<Page("", ImageKeys, Some(2), <<>>),
            Page("Actor1", ImageKeys, Some(8), Talk)>>}

Event(name, x, y, pages) == [name |-> name, x |-> x, y |-> y, pages |-> pages]

EventSample ==
    {None}
    \cup {Some(Event("Bob", 1, 0, ps)) : ps \in PagesSample}
    \cup {Some(Event("Amy", 0, 2, ps)) : ps \in PagesSample}

RpgData(keys, width, height, data, displayName, events) ==
    [keys |-> keys, width |-> width, height |-> height, data |-> data,
     displayName |-> displayName, events |-> events]

\* The end-to-end scenario of the specification.
ExampleEvents ==
    <<None, Some(Event("Bob", 1, 0, <<Page("Actor1", ImageKeys, Some(6), Talk)>>))>>

ExampleData == RpgData(TopKeys, 2, 1, <<2050, 1600>>, "Test", ExampleEvents)

TileSample == {1600, 2050}

TileVariants ==
    UNION {{RpgData(TopKeys, w, h, d, "Test", ExampleEvents) :
               d \in SeqsUpTo(TileSample, w * h + MaxExtra)} :
           w \in 1..MaxDim, h \in 1..MaxDim}

EventVariants ==
    {RpgData(TopKeys, 2, 1, <<2050, 1600>>, "Test", evs) :
        evs \in SeqsUpTo(EventSample, MaxEvents)}

KeyVariants ==
    {RpgData(ks, 2, 1, <<2050, 1600>>, "Test", ExampleEvents) :
        ks \in SUBSET TopKeys}

JsonFile(rpg_data) == [exists |-> TRUE, valid |-> TRUE, json |-> <<rpg_data>>]
MissingFile == [exists |-> FALSE, valid |-> FALSE, json |-> <<>>]
InvalidFile == [exists |-> TRUE, valid |-> FALSE, json |-> <<>>]

ConvertFiles ==
    {MissingFile, InvalidFile}
    \cup {JsonFile(d) : d \in TileVariants \cup EventVariants \cup KeyVariants}

DriverFiles ==
    {MissingFile, InvalidFile, JsonFile(ExampleData),
     JsonFile(RpgData(TopKeys, 2, 2, <<2050, 1600>>, "Short", <<>>)),
     JsonFile(RpgData(TopKeys \ {"displayName"}, 2, 1, <<2050, 1600>>, "Test",
                      ExampleEvents)),
     JsonFile(RpgData(TopKeys, 1, 1, <<0, 2048>>, "Mute",
                      <<Some(Event("Amy", 0, 2,
                            <<Page("Actor1", {"characterName"}, None, Talk)>>))>>))}

AbsentOut == [exists |-> FALSE, content |-> <<>>]
OldOut ==
    [exists |-> TRUE,
     content |-> <<[name |-> "Old", width |-> 1, height |-> 1,
                    tiles |-> <<7>>, npcs |-> <<>>]>>]

(***************************************************************************)
(* main, lines 114-141.                                                    *)
(***************************************************************************)
Say(msg, file) == [msg |-> msg, file |-> file]

InitMain ==
    /\ pc = "main"
    /\ idx = 0
    /\ rpg_files \in [RpgNames -> DriverFiles]
    /\ output_dir \in BOOLEAN
    /\ out_files \in [OutNames -> {AbsentOut, OldOut}]
    /\ (~output_dir => \A n \in OutNames : out_files[n] = AbsentOut)
    /\ raised = "none"
    /\ console = <<>>
    /\ arg = 0
    /\ ret = 0

\* output_dir.mkdir(parents=True, exist_ok=True) and the banner.
Mkdir ==
    /\ pc = "main"
    /\ output_dir' = TRUE
    /\ console' = Append(console, Say("Converting", ""))
    /\ idx' = 1
    /\ pc' = "loop"
    /\ UNCHANGED <<rpg_files, out_files, raised, arg, ret>>

\* Mutant: `break` in place of `continue`.
SkipMissingBreak ==
    /\ pc = "loop"
    /\ idx <= Len(maps_to_convert)
    /\ ~rpg_files[maps_to_convert[idx][1]].exists
    /\ console' = Append(console, Say("Skipping", maps_to_convert[idx][1]))
    /\ idx' = Len(maps_to_convert) + 1
    /\ UNCHANGED <<pc, rpg_files, out_files, output_dir, raised, arg, ret>>

\* Lines 134-136: the source does not exist.
SkipMissing ==
    /\ pc = "loop"
    /\ idx <= Len(maps_to_convert)
    /\ ~rpg_files[maps_to_convert[idx][1]].exists
    /\ console' = Append(console, Say("Skipping", maps_to_convert[idx][1]))
    /\ idx' = idx + 1
    /\ UNCHANGED <<pc, rpg_files, out_files, output_dir, raised, arg, ret>>

Converted(i) ==
    convert_map(maps_to_convert[i][1], rpg_files[maps_to_convert[i][1]],
                out_files[maps_to_convert[i][2]])

\* Line 138, convert_map returns.
ConvertReturns ==
    /\ pc = "loop"
    /\ idx <= Len(maps_to_convert)
    /\ rpg_files[maps_to_convert[idx][1]].exists
    /\ Converted(idx).raised = "none"
    /\ out_files' = [out_files EXCEPT ![maps_to_convert[idx][2]] = Converted(idx).out]
    /\ console' = console \o Converted(idx).printed
    /\ idx' = idx + 1
    /\ UNCHANGED <<pc, rpg_files, output_dir, raised, arg, ret>>

\* Mutant: the call is wrapped in try/except and the loop goes on.
ConvertRaisesCaught ==
    /\ pc = "loop"
    /\ idx <= Len(maps_to_convert)
    /\ rpg_files[maps_to_convert[idx][1]].exists
    /\ Converted(idx).raised # "none"
    /\ out_files' = [out_files EXCEPT ![maps_to_convert[idx][2]] = Converted(idx).out]
    /\ console' = console \o Converted(idx).printed
    /\ idx' = idx + 1
    /\ UNCHANGED <<pc, rpg_files, output_dir, raised, arg, ret>>

\* Line 138, convert_map raises: nothing in main catches it.
ConvertRaises ==
    /\ pc = "loop"
    /\ idx <= Len(maps_to_convert)
    /\ rpg_files[maps_to_convert[idx][1]].exists
    /\ Converted(idx).raised # "none"
    /\ out_files' = [out_files EXCEPT ![maps_to_convert[idx][2]] = Converted(idx).out]
    /\ console' = console \o Converted(idx).printed
    /\ raised' = Converted(idx).raised
    /\ pc' = "aborted"
    /\ UNCHANGED <<idx, rpg_files, output_dir, arg, ret>>

\* Lines 140-141: the loop is over.
Complete ==
    /\ pc = "loop"
    /\ idx > Len(maps_to_convert)
    /\ console' = Append(console, Say("Conversion complete!", ""))
    /\ pc' = "done"
    /\ UNCHANGED <<idx, rpg_files, out_files, output_dir, raised, arg, ret>>

Next == Mkdir \/ SkipMissing \/ ConvertReturns \/ ConvertRaises \/ Complete

Spec == InitMain /\ [][Next]_vars

(***************************************************************************)
(* One call of convert_map on the first pair's paths.                      *)
(***************************************************************************)
InitConvert ==
    /\ pc = "call_convert_map"
    /\ idx = 1
    /\ \E f \in ConvertFiles :
           rpg_files = [n \in RpgNames |->
                           IF n = maps_to_convert[1][1] THEN f ELSE MissingFile]
    /\ \E o \in {AbsentOut, OldOut} :
           out_files = [n \in OutNames |->
                           IF n = maps_to_convert[1][2] THEN o ELSE AbsentOut]
    /\ output_dir = TRUE
    /\ raised = "none"
    /\ console = <<>>
    /\ arg = 0
    /\ ret = 0

CallConvertMap ==
    /\ pc = "call_convert_map"
    /\ out_files' = [out_files EXCEPT ![maps_to_convert[1][2]] = Converted(1).out]
    /\ console' = console \o Converted(1).printed
    /\ raised' = Converted(1).raised
    /\ pc' = "returned"
    /\ UNCHANGED <<idx, rpg_files, output_dir, arg, ret>>

NextConvert == CallConvertMap

SpecConvert == InitConvert /\ [][NextConvert]_vars

(***************************************************************************)
(* One call of simplify_tile_id.                                           *)
(***************************************************************************)
InitIdle ==
    /\ idx = 0
    /\ rpg_files = [n \in RpgNames |-> MissingFile]
    /\ out_files = [n \in OutNames |-> AbsentOut]
    /\ output_dir = FALSE
    /\ raised = "none"
    /\ console = <<>>

InitTile ==
    /\ InitIdle
    /\ pc = "call_simplify_tile_id"
    /\ arg \in MinTileId..MaxTileId
    /\ ret = 0

CallSimplifyTileId ==
    /\ pc = "call_simplify_tile_id"
    /\ ret' = simplify_tile_id(arg)
    /\ pc' = "returned"
    /\ UNCHANGED <<idx, rpg_files, out_files, output_dir, raised, console, arg>>

NextTile == CallSimplifyTileId

SpecTile == InitTile /\ [][NextTile]_vars

(***************************************************************************)
(* One call of extract_dialogue_from_commands.                             *)
(***************************************************************************)
InitDialogue ==
    /\ InitIdle
    /\ pc = "call_extract_dialogue"
    /\ arg \in SeqsUpTo(CommandSample, MaxCmds)
    /\ ret = [portrait |-> "", lines |-> <<>>]

CallExtractDialogue ==
    /\ pc = "call_extract_dialogue"
    /\ ret' = extract_dialogue_from_commands(arg)
    /\ pc' = "returned"
    /\ UNCHANGED <<idx, rpg_files, out_files, output_dir, raised, console, arg>>

NextDialogue == CallExtractDialogue

SpecDialogue == InitDialogue /\ [][NextDialogue]_vars

(***************************************************************************)
(* Properties.                                                             *)
(***************************************************************************)
NumPairs == Len(maps_to_convert)
SrcName(i) == maps_to_convert[i][1]
OutName(i) == maps_to_convert[i][2]
SrcExists(i) == rpg_files[SrcName(i)].exists

\* The source and destination of the single call of SpecConvert.
Src1 == rpg_files[SrcName(1)]
Out1 == out_files[OutName(1)]
Readable1 == Src1.exists /\ Src1.valid
Complete1 == Readable1 /\ TopKeys \subseteq Src1.json[1].keys
ReturnedOk == pc = "returned" /\ raised = "none"

ShowsText(c) == c.code = 401 /\ c.parameters # <<>>
ShowsFace(c) == c.code = 101 /\ c.parameters # <<>>

\* A non-null event whose first page has a sprite and a line of dialogue.
Talks(event) ==
    /\ event # None
    /\ event[1].pages # <<>>
    /\ event[1].pages[1].image.characterName # ""
    /\ \E k \in 1..Len(event[1].pages[1].list) :
           ShowsText(event[1].pages[1].list[k])

Untouched(out_file) == out_file \in {AbsentOut, OldOut}

\* C1: after every successful conversion the emitted tiles have length
\* width*height, whatever the length of the source data.
C1_TilesLength ==
    ReturnedOk =>
        Len(Out1.content[1].tiles) = Src1.json[1].width * Src1.json[1].height

\* C2: when data has fewer than width*height entries the conversion fails
\* and no output record is produced.
C2_ShortDataFails ==
    (pc = "returned" /\ Complete1
        /\ Len(Src1.json[1].data) < Src1.json[1].width * Src1.json[1].height)
    => (raised # "none" /\ Untouched(Out1))

\* C3: the emitted NPC list holds one NPC for each event that is non-null,
\* has a sprite on its first page and yields a dialogue line, and none for
\* any other event; every emitted NPC has a non-empty `lines`.
C3_NpcPerTalkingEvent ==
    ReturnedOk =>
        LET events == Src1.json[1].events
            npcs == Out1.content[1].npcs
        IN  /\ Len(npcs) = Cardinality({i \in 1..Len(events) : Talks(events[i])})
            /\ \A k \in 1..Len(npcs) : npcs[k].dialogue.lines # <<>>

C3_Witness ==
    /\ ReturnedOk
    /\ Len(Src1.json[1].events) = 2
    /\ Talks(Src1.json[1].events[2])
    /\ Src1.json[1].events[1] # None
    /\ Src1.json[1].events[1][1].pages # <<>>
    /\ Src1.json[1].events[1][1].pages[1].image.characterName = "Actor1"
    /\ Src1.json[1].events[1][1].pages[1].list # <<>>
    /\ ~Talks(Src1.json[1].events[1])
    /\ Len(Out1.content[1].npcs) = 1

\* C4: simplify_tile_id gives id - 2048 for id >= 2048, id - 1536 for
\* 1536 <= id < 2048 and 0 for id < 1536; the result is never negative.
C4_TileBrackets ==
    pc = "returned" =>
        /\ (arg >= 2048 => ret = arg - 2048)
        /\ (arg >= 1536 /\ arg < 2048 => ret = arg - 1536)
        /\ (arg < 1536 => ret = 0)
        /\ ret >= 0

C4_Witness == pc = "returned" /\ arg = 2048 /\ ret = 0

\* C5: every event that becomes an NPC gets a facing among down, left,
\* right, up, and an unrecognized or missing direction code gives "down"
\* without an error being raised.
C5_FacingDefaultsDown ==
    (pc = "returned" /\ Complete1) =>
        /\ raised = "none"
        /\ \A k \in 1..Len(Out1.content[1].npcs) :
               Out1.content[1].npcs[k].facing \in {"down", "left", "right", "up"}

\* C6: `lines` is the first parameters of the code-401 commands with a
\* non-empty parameter list, in source order; `portrait` is the first
\* parameter of the last code-101 command with a non-empty parameter list,
\* or "" if there is none.
C6_DialogueExtraction ==
    pc = "returned" =>
        LET shown == SelectSeq(arg, ShowsText)
            faces == {k \in 1..Len(arg) : ShowsFace(arg[k])}
            last == CHOOSE k \in faces : \A j \in faces : j <= k
        IN  /\ ret.lines = [i \in 1..Len(shown) |-> shown[i].parameters[1]]
            /\ ret.portrait = IF faces = {} THEN "" ELSE arg[last].parameters[1]

C6_Witness ==
    /\ pc = "returned"
    /\ arg = <<Cmd(101, <<"Hi there">>), Cmd(101, <<"Bob_1", "0">>),
               Cmd(401, <<"Hi there">>)>>
    /\ ret = [portrait |-> "Bob_1", lines |-> <<"Hi there">>]

\* C7: a pair whose source does not exist is skipped: its destination is
\* left as it was, the run is never aborted at such a pair, and every pair
\* the loop has passed whose source exists has been converted.
C7_MissingSourceSkipped ==
    /\ \A i \in 1..NumPairs : ~SrcExists(i) => Untouched(out_files[OutName(i)])
    /\ (pc = "aborted" => idx <= NumPairs /\ SrcExists(idx))
    /\ (pc \in {"loop", "aborted", "done"} =>
           \A j \in 1..NumPairs :
               (j < idx /\ SrcExists(j)) =>
                   /\ Converted(j).raised = "none"
                   /\ out_files[OutName(j)] = Converted(j).out)
    /\ (pc = "done" => idx = NumPairs + 1)

C7_Witness ==
    /\ pc = "done"
    /\ ~SrcExists(1)
    /\ out_files[OutName(1)] = OldOut
    /\ SrcExists(2)
    /\ out_files[OutName(2)].exists
    /\ out_files[OutName(2)].content[1].name = "Test"

\* C8: once convert_map fails on a pair the loop never moves past that
\* pair: no later pair is converted, the run does not complete, and the
\* outputs written for earlier pairs are still in place.
C8_AbortOnFailure ==
    /\ \A i \in 1..NumPairs :
           (pc # "main" /\ SrcExists(i) /\ Converted(i).raised # "none") =>
               /\ idx <= i
               /\ pc # "done"
               /\ \A j \in (i + 1)..NumPairs : Untouched(out_files[OutName(j)])
    /\ (pc = "aborted" =>
           /\ idx <= NumPairs
           /\ SrcExists(idx)
           /\ Converted(idx).raised # "none"
           /\ raised = Converted(idx).raised
           /\ \A j \in 1..(idx - 1) :
                  SrcExists(j) => out_files[OutName(j)] = Converted(j).out)

C8_Witness ==
    /\ pc = "aborted"
    /\ idx = 2
    /\ out_files[OutName(1)].exists
    /\ out_files[OutName(1)].content[1].name = "Test"
    /\ Untouched(out_files[OutName(2)])

\* C9: the NPC list is in the order of the events it comes from, and each
\* NPC copies its event's name, x, y and first-page sprite, with
\* dialogue.speaker equal to the name.
C9_NpcOrderAndCopy ==
    ReturnedOk =>
        LET events == Src1.json[1].events
            npcs == Out1.content[1].npcs
        IN  \E f \in [1..Len(npcs) -> 1..Len(events)] :
                /\ \A a, b \in 1..Len(npcs) : a < b => f[a] < f[b]
                /\ \A k \in 1..Len(npcs) :
                       /\ Talks(events[f[k]])
                       /\ npcs[k].name = events[f[k]][1].name
                       /\ npcs[k].x = events[f[k]][1].x
                       /\ npcs[k].y = events[f[k]][1].y
                       /\ npcs[k].sprite =
                              events[f[k]][1].pages[1].image.characterName
                       /\ npcs[k].dialogue.speaker = npcs[k].name

C9_Witness ==
    /\ ReturnedOk
    /\ Len(Out1.content[1].npcs) = 2
    /\ Out1.content[1].npcs[1].name = "Bob"
    /\ Out1.content[1].npcs[2].name = "Amy"
    /\ Out1.content[1].npcs[2].x = 0
    /\ Out1.content[1].npcs[2].y = 2

\* C10: a call of convert_map on a source record that lacks one of width,
\* height, data, displayName, events raises and leaves the destination
\* file as it was.
C10_MissingFieldLeavesDestination ==
    [][(pc = "call_convert_map" /\ Readable1
            /\ ~(TopKeys \subseteq Src1.json[1].keys))
        => (raised' = "KeyError" /\ out_files' = out_files)]_vars

C10_Witness ==
    /\ pc = "returned"
    /\ Readable1
    /\ Src1.json[1].keys = TopKeys \ {"displayName"}
    /\ raised = "KeyError"
    /\ Out1 = OldOut

====
